---- MODULE Spec2Model ----
(***************************************************************************)
(* A model of motorengine's QuerySet (src/motorengine/queryset.py): the    *)
(* declarative state of one QuerySet instance, the terminal operations     *)
(* issued on it, the store calls they dispatch and the completion handlers *)
(* the store and the reference loader invoke later on the same loop.       *)
(***************************************************************************)
EXTENDS Integers, Sequences, FiniteSets, TLC

VARIABLES
    _filters,                  \* self._filters: the accumulated conditions, {} when empty
    _limit,                    \* self._limit
    _skip,                     \* self._skip
    _order_fields,             \* self._order_fields
    _loaded_fields,            \* self._loaded_fields (QueryFieldList)
    _reference_loaded_fields,  \* self._reference_loaded_fields
    current_count,             \* self.current_count
    result_size,               \* self.result_size
    klass,                     \* self.__klass__: the document type's settings
    documents,                 \* the document objects handed to save / remove: their _id
    ops                        \* the terminal operations issued on the QuerySet

qsVars == <<_filters, _limit, _skip, _order_fields, _loaded_fields, _reference_loaded_fields>>
counterVars == <<current_count, result_size>>
vars == <<_filters, _limit, _skip, _order_fields, _loaded_fields, _reference_loaded_fields,
          current_count, result_size, klass, documents, ops>>

(***************************************************************************)
(* Bounds of the model.                                                    *)
(***************************************************************************)
MaxOps == 2         \* terminal operations issued on the instance
MaxBatch == 2       \* documents in one find_all batch
MaxIndexes == 2     \* unique/sparse fields of the document type
MaxDocs == 1        \* document objects the caller holds
MaxSaves == 1       \* save operations in progress together
MaxPath == 2        \* components of a dotted field specification
MaxBuilds == 1      \* recorded projection builder calls on dotted paths

DEFAULT_LIMIT == 1000

Ops == 1..MaxOps
Docs == 1..MaxDocs

\* Python's None; a present value v is <<v>>
None == <<>>
Some(v) == <<v>>

Conds == {"a", "b"}                 \* field comparisons a filter call can add
FieldNames == {"title", "comments"} \* declared fields of the document type
StoreErrors == {"StoreError", "DuplicateKeyError"}

(***************************************************************************)
(* QueryFieldList (motorengine/query_builder/field_list.py).               *)
(***************************************************************************)
QFL_ONLY == "ONLY"        \* QueryFieldList.ONLY
QFL_EXCLUDE == "EXCLUDE"  \* QueryFieldList.EXCLUDE

EmptyFieldList(always) == [fields |-> {}, value |-> QFL_ONLY, always_include |-> always,
                           _only_called |-> FALSE]

\* QueryFieldList.__add__: the union / difference rules of only() and exclude()
FieldListAdd(lf, f) ==
    LET merged ==
            IF lf.fields = {} THEN [lf EXCEPT !.fields = f.fields, !.value = f.value]
            ELSE IF lf.value = QFL_ONLY /\ f.value = QFL_ONLY
                 THEN [lf EXCEPT !.fields = lf.fields \cup f.fields]
            ELSE IF lf.value = QFL_EXCLUDE /\ f.value = QFL_EXCLUDE
                 THEN [lf EXCEPT !.fields = lf.fields \cup f.fields]
            ELSE IF lf.value = QFL_ONLY /\ f.value = QFL_EXCLUDE
                 THEN [lf EXCEPT !.fields = lf.fields \ f.fields]
            ELSE [lf EXCEPT !.value = QFL_ONLY, !.fields = f.fields \ lf.fields]
    IN [merged EXCEPT !._only_called = lf._only_called \/ f._only_called]

\* QueryFieldList.__bool__ / __nonzero__
FieldListBool(lf) == lf.fields # {}

\* QueryFieldList.to_query: the projection document sent to the store
FieldListToQuery(lf) == [f \in lf.fields |-> lf.value]

\* get_query_from_filters: {} for an empty filter state, else the compiled filter
get_query_from_filters(filters) == IF filters = {} THEN {} ELSE filters

(***************************************************************************)
(* Operations.                                                             *)
(***************************************************************************)
\* one terminal operation: its arguments, the store calls it issued (each with the
\* answer the store gave, None while in flight), the values its continuation was
\* invoked with and the errors it raised
IdleOp == [kind |-> "none", pc |-> "idle", lazy |-> None, arg |-> None,
           calls |-> <<>>, total_indexes |-> 0, created_indexes |-> 0, error_index |-> None,
           results |-> <<>>, triggered |-> {}, pending |-> {},
           delivered |-> <<>>, raised |-> <<>>]

Call(op, args) == [op |-> op, args |-> args, answer |-> None]
Answered(calls, k, error) ==
    [calls EXCEPT ![k].answer = IF error = None THEN Some("ok") ELSE error]
InFlight(op) == {k \in 1..Len(op.calls) : op.calls[k].answer = None}
Raise(op, e) == [op EXCEPT !.raised = Append(@, e)]
Deliver(op, v) == [op EXCEPT !.delivered = Append(@, v)]

\* the raw records a find / find_one answers with; is_lazy is what the Document
\* collaborator will answer for the is_lazy property of the materialized object
RawDocs == [is_lazy : BOOLEAN]
Batches == UNION {[1..n -> RawDocs] : n \in 0..MaxBatch}

\* klass.from_son(doc, _is_partly_loaded=..., _reference_loaded_fields=...)
from_son(raw, partly, refs) ==
    [is_lazy |-> raw.is_lazy,
     _is_partly_loaded |-> partly, _reference_loaded_fields |-> refs]

\* _get_find_cursor: the find call built from the declarative state
_get_find_cursor ==
    [filter |-> get_query_from_filters(_filters),
     projection |-> FieldListToQuery(_loaded_fields),
     sort |-> IF _order_fields # <<>> THEN Some(_order_fields) ELSE None,
     limit |-> IF _limit # None /\ _limit # Some(0) THEN _limit ELSE None,
     skip |-> IF _skip # None /\ _skip # Some(0) THEN _skip ELSE None]

\* find_all / count with the assignment self._filters = {} left out
KeptFilters(filters) == filters

\* the assignment self._filters = {} of find_all and count
ClearedFilters(filters) == {}

Init ==
    /\ _filters = {}
    /\ _limit = None
    /\ _skip = None
    /\ _order_fields = <<>>
    /\ _loaded_fields = EmptyFieldList({})
    /\ _reference_loaded_fields = <<>>
    /\ current_count = None
    /\ result_size = None
    /\ klass \in [__lazy__ : BOOLEAN, indexes : 0..MaxIndexes]
    /\ documents \in [Docs -> [_id : {None, Some("id0")}]]
    /\ ops = [o \in Ops |-> IdleOp]

\* operation slots are taken in order
Free(o) == ops[o].kind = "none" /\ \A p \in 1..(o - 1) : ops[p].kind # "none"

(***************************************************************************)
(* Builder calls.                                                          *)
(***************************************************************************)
\* filter(**kwargs) / filter(Q): conjoins the condition with the prior expression
Filter(c) ==
    /\ c \notin _filters
    /\ _filters' = _filters \cup {c}
    /\ UNCHANGED <<_limit, _skip, _order_fields, _loaded_fields, _reference_loaded_fields,
                   current_count, result_size, klass, documents, ops>>

\* skip(skip): self._skip = skip
skip(n) ==
    /\ _skip' = Some(n)
    /\ UNCHANGED <<_filters, _limit, _order_fields, _loaded_fields, _reference_loaded_fields,
                   current_count, result_size, klass, documents, ops>>

\* limit(limit): self._limit = limit
limit(n) ==
    /\ _limit' = Some(n)
    /\ UNCHANGED <<_filters, _skip, _order_fields, _loaded_fields, _reference_loaded_fields,
                   current_count, result_size, klass, documents, ops>>

\* the argument forms of filter: a pre-built expression (Q, QNot, QCombination),
\* keyword comparisons, a single mapping
FilterForms == {"Q", "kwargs", "mapping"}

\* the conditions of the expression filter folds into the filter state: the
\* expression given, Q(**kwargs) or, on an empty filter state, Q(mapping); kwargs
\* is empty when the conditions are given as one positional mapping
FilterOperand(filters, form, conds) ==
    IF form = "Q" THEN conds
    ELSE LET kwargs == IF form = "kwargs" THEN conds ELSE {} IN
         IF filters # {} THEN kwargs
         ELSE IF form = "mapping" THEN conds ELSE kwargs

\* filter(*arguments, **kwargs) with conds given in one of the forms, recorded as
\* operation o with the filter state it found
FilterArguments(o, form, conds) ==
    /\ Free(o)
    /\ conds # {}
    /\ _filters' = _filters \cup FilterOperand(_filters, form, conds)
    /\ ops' = [ops EXCEPT ![o] = [@ EXCEPT !.kind = "filter", !.pc = "returned",
                                           !.arg = [form |-> form, conds |-> conds,
                                                    _filters |-> _filters]]]
    /\ UNCHANGED <<_limit, _skip, _order_fields, _loaded_fields, _reference_loaded_fields,
                   current_count, result_size, klass, documents>>

\* fields(_only_called, **kwargs) for declared top-level names with one value
fields(lf, _only_called, names, value) ==
    FieldListAdd(lf, [fields |-> names, value |-> value, _only_called |-> _only_called])

\* only(*fields)
Only(names) ==
    /\ _loaded_fields' = fields(_loaded_fields, TRUE, names, QFL_ONLY)
    /\ _loaded_fields' # _loaded_fields
    /\ UNCHANGED <<_filters, _limit, _skip, _order_fields, _reference_loaded_fields,
                   current_count, result_size, klass, documents, ops>>

\* exclude(*fields)
Exclude(names) ==
    /\ _loaded_fields' = fields(_loaded_fields, FALSE, names, QFL_EXCLUDE)
    /\ _loaded_fields' # _loaded_fields
    /\ UNCHANGED <<_filters, _limit, _skip, _order_fields, _reference_loaded_fields,
                   current_count, result_size, klass, documents, ops>>

\* all_fields() building the new field list around the fields of the old one
\* all_fields emptying the nested projections of reference fields as well
AllFieldsClearingReferences ==
    /\ _loaded_fields' = EmptyFieldList(_loaded_fields.always_include)
    /\ _loaded_fields' # _loaded_fields
    /\ _reference_loaded_fields' = <<>>
    /\ UNCHANGED <<_filters, _limit, _skip, _order_fields,
                   current_count, result_size, klass, documents, ops>>

AllFieldsKeepingFields ==
    /\ _loaded_fields' = [EmptyFieldList(_loaded_fields.always_include)
                             EXCEPT !.fields = _loaded_fields.fields]
    /\ _loaded_fields' # _loaded_fields
    /\ UNCHANGED <<_filters, _limit, _skip, _order_fields, _reference_loaded_fields,
                   current_count, result_size, klass, documents, ops>>

\* all_fields()
AllFields ==
    /\ _loaded_fields' = EmptyFieldList(_loaded_fields.always_include)
    /\ _loaded_fields' # _loaded_fields
    /\ UNCHANGED <<_filters, _limit, _skip, _order_fields, _reference_loaded_fields,
                   current_count, result_size, klass, documents, ops>>

(***************************************************************************)
(* The projection builder on dotted paths.                                 *)
(***************************************************************************)
\* the field registries (_fields) of the document type and of its embedded type:
\* the class of each declared field and, for embedded fields, the type reached
_fields(type) ==
    IF type = "Post"
    THEN [title |-> [class |-> "BaseField", embedded_type |-> None],
          tags |-> [class |-> "ListField", embedded_type |-> None],
          meta |-> [class |-> "EmbeddedDocumentField", embedded_type |-> Some("Meta")],
          comments |-> [class |-> "ListField(EmbeddedDocumentField)",
                        embedded_type |-> Some("Meta")],
          author |-> [class |-> "ReferenceField", embedded_type |-> None],
          editors |-> [class |-> "ListField(ReferenceField)", embedded_type |-> None]]
    ELSE [title |-> [class |-> "BaseField", embedded_type |-> None],
          author |-> [class |-> "ReferenceField", embedded_type |-> None]]

\* the names the document type declares
DeclaredNames == DOMAIN _fields("Post")

\* the components a field specification is made of: declared names, a name no
\* type declares and the empty component of a leading, doubled or trailing dot
Components == {"title", "tags", "meta", "comments", "author", "editors", "bogus", ""}
Paths == UNION {[1..n -> Components] : n \in 1..MaxPath}

\* '.'.join(parts)
RECURSIVE Join(_)
Join(parts) ==
    IF parts = <<>> THEN ""
    ELSE IF Len(parts) = 1 THEN parts[1]
    ELSE parts[1] \o "." \o Join(Tail(parts))

\* the truth value of the string the components make: false for None (no
\* component) and for '' (one empty component)
Truthy(parts) == parts # <<>> /\ parts # <<"">>

\* _fill_reference_loaded_fields returning the requested value for the reference
\* field where the code returns QueryFieldList.ONLY
_fill_reference_requested_value(refs, head, tail, field_name, value) ==
    LET name == Join(head) IN
    IF Truthy(tail)
    THEN LET nested == IF name \in DOMAIN refs THEN refs[name] ELSE <<>>
             entry == (Join(tail) :> value) @@ nested
         IN [raised |-> None, pair |-> <<name, value>>,
             refs |-> (name :> entry) @@ refs]
    ELSE [raised |-> None, pair |-> <<field_name, value>>, refs |-> refs]

\* _fill_reference_loaded_fields(head, tail, field_name, value) on the map refs:
\* the pair returned and the map after the call
_fill_reference_loaded_fields(refs, head, tail, field_name, value) ==
    LET name == Join(head) IN
    IF Truthy(tail)
    THEN LET nested == IF name \in DOMAIN refs THEN refs[name] ELSE <<>>
             entry == (Join(tail) :> value) @@ nested
         IN [raised |-> None, pair |-> <<name, QFL_ONLY>>,
             refs |-> (name :> entry) @@ refs]
    ELSE [raised |-> None, pair |-> <<field_name, value>>, refs |-> refs]

\* the while loop of _check_valid_field_name_to_project: head the components
\* consumed, tail those left, obj the type reached (None after a plain field)
RECURSIVE Walk(_, _, _, _, _, _)
Walk(refs, field_name, value, head, tail, obj) ==
    IF ~Truthy(tail)
    THEN [raised |-> None, pair |-> <<field_name, value>>, refs |-> refs]
    ELSE LET field_value == Head(tail)
             rest == Tail(tail)
             head1 == Append(head, field_value)
         IN IF obj = None \/ field_value \notin DOMAIN _fields(obj[1])
            THEN [raised |-> Some("ValueError"), pair |-> None, refs |-> refs]
            ELSE LET field == _fields(obj[1])[field_value] IN
                 IF field.class \in {"EmbeddedDocumentField",
                                     "ListField(EmbeddedDocumentField)"}
                 THEN Walk(refs, field_name, value, head1, rest, field.embedded_type)
                 ELSE IF field.class \in {"ReferenceField", "ListField(ReferenceField)"}
                 THEN _fill_reference_loaded_fields(refs, head1, rest, field_name, value)
                 ELSE Walk(refs, field_name, value, head1, rest, None)

\* _check_valid_field_name_to_project(field_name, value), field_name given as
\* its components
_check_valid_field_name_to_project(refs, path, value) ==
    LET field_name == Join(path) IN
    IF Len(path) = 1 /\ (field_name = "_id" \/ field_name \in DOMAIN _fields("Post"))
    THEN [raised |-> None, pair |-> <<field_name, value>>, refs |-> refs]
    ELSE Walk(refs, field_name, value, <<>>, path, Some("Post"))

\* the first loop of fields(): the keyword arguments are checked in turn, from
\* the i-th on; the first ValueError ends the call
RECURSIVE CleanedFields(_, _, _, _)
CleanedFields(refs, kwargs, i, cleaned_fields) ==
    IF i > Len(kwargs)
    THEN [raised |-> None, cleaned_fields |-> cleaned_fields, refs |-> refs]
    ELSE LET r == _check_valid_field_name_to_project(refs, kwargs[i][1], kwargs[i][2])
         IN IF r.raised # None
            THEN [raised |-> r.raised, cleaned_fields |-> cleaned_fields, refs |-> r.refs]
            ELSE CleanedFields(r.refs, kwargs, i + 1, Append(cleaned_fields, r.pair))

\* the second loop of fields() assigning the new field list (=) where the code
\* adds it to the accumulated one (+=)
GroupedFieldsAssigned(lf, _only_called, cleaned_fields) ==
    LET names == {cleaned_fields[k][1] : k \in 1..Len(cleaned_fields)}
        value == IF cleaned_fields = <<>> THEN lf.value ELSE cleaned_fields[1][2]
    IN IF names = {} THEN lf
       ELSE [fields |-> names, value |-> value, always_include |-> lf.always_include,
             _only_called |-> _only_called]

\* the second loop of fields(): the cleaned pairs grouped by value, the EXCLUDE
\* group (0) before the ONLY group (1), each added to the field list
GroupedFields(lf, _only_called, cleaned_fields) ==
    LET group(value) == {cleaned_fields[k][1] : k \in
                            {j \in 1..Len(cleaned_fields) : cleaned_fields[j][2] = value}}
        lf1 == IF group(QFL_EXCLUDE) = {} THEN lf
               ELSE fields(lf, _only_called, group(QFL_EXCLUDE), QFL_EXCLUDE)
    IN IF group(QFL_ONLY) = {} THEN lf1
       ELSE fields(lf1, _only_called, group(QFL_ONLY), QFL_ONLY)

\* fields(_only_called, **kwargs), kwargs a sequence of <<path, value>>; only and
\* exclude call it with one value for every path. The call is recorded as
\* operation o: the pairs it resolved, the error it raised
FieldsKwargs(o, name, _only_called, kwargs) ==
    /\ Free(o)
    /\ LET r == CleanedFields(_reference_loaded_fields, kwargs, 1, <<>>)
           op == [ops[o] EXCEPT !.kind = name, !.arg = kwargs,
                                !.results = r.cleaned_fields]
       IN /\ _reference_loaded_fields' = r.refs
          /\ IF r.raised # None
             THEN /\ _loaded_fields' = _loaded_fields
                  /\ ops' = [ops EXCEPT ![o] = Raise([op EXCEPT !.pc = "failed"], r.raised[1])]
             ELSE /\ _loaded_fields' = GroupedFields(_loaded_fields, _only_called,
                                                     r.cleaned_fields)
                  /\ ops' = [ops EXCEPT ![o] = [op EXCEPT !.pc = "returned"]]
    /\ UNCHANGED <<_filters, _limit, _skip, _order_fields,
                   current_count, result_size, klass, documents>>

\* only(*fields) on dotted paths
OnlyPaths(o, paths) ==
    FieldsKwargs(o, "only", TRUE, [k \in 1..Len(paths) |-> <<paths[k], QFL_ONLY>>])

\* exclude(*fields) on dotted paths
ExcludePaths(o, paths) ==
    FieldsKwargs(o, "exclude", FALSE, [k \in 1..Len(paths) |-> <<paths[k], QFL_EXCLUDE>>])

(***************************************************************************)
(* order_by.                                                               *)
(***************************************************************************)
\* isinstance(field, ListField) for a field of the given class
IsListField(class) ==
    class \in {"ListField", "ListField(EmbeddedDocumentField)", "ListField(ReferenceField)"}

ASCENDING == 1
DESCENDING == -1

\* order_by(field_name, direction), the field given by its name or, as a field
\* handle, by an object of the given class whose .name is field_name; the sort
\* key is the field's db_field, which is its name unless the type renames it.
\* The call is recorded as operation o
order_by(o, field_name, handle_class, direction) ==
    /\ Free(o)
    /\ LET op == [ops[o] EXCEPT !.kind = "order_by",
                                !.arg = [field_name |-> field_name,
                                         handle_class |-> handle_class,
                                         direction |-> direction]]
           raises == \/ (handle_class # None /\ IsListField(handle_class[1]))
                     \/ field_name \notin DOMAIN _fields("Post")
       IN IF raises
          THEN /\ ops' = [ops EXCEPT ![o] = Raise([op EXCEPT !.pc = "failed"], "ValueError")]
               /\ UNCHANGED _order_fields
          ELSE /\ ops' = [ops EXCEPT ![o] = [op EXCEPT !.pc = "returned"]]
               /\ _order_fields' = Append(_order_fields, <<field_name, direction>>)
    /\ UNCHANGED <<_filters, _limit, _skip, _loaded_fields, _reference_loaded_fields,
                   current_count, result_size, klass, documents>>

(***************************************************************************)
(* find_all and the batch reference loader.                                *)
(***************************************************************************)
\* find_all: builds the cursor, clears the filter state, drains the cursor
\* find_all resetting the limit together with the filters
FindAllResettingLimit(o, lazy) ==
    /\ Free(o)
    /\ LET length == IF _limit # None THEN _limit[1] ELSE DEFAULT_LIMIT
           cursor == Call("find", _get_find_cursor @@ [length |-> length])
       IN ops' = [ops EXCEPT ![o] = [@ EXCEPT !.kind = "find_all", !.pc = "sent",
                                               !.lazy = lazy, !.calls = <<cursor>>]]
    /\ _filters' = ClearedFilters(_filters)
    /\ _limit' = None
    /\ UNCHANGED <<_skip, _order_fields, _loaded_fields, _reference_loaded_fields,
                   current_count, result_size, klass, documents>>

FindAll(o, lazy) ==
    /\ Free(o)
    /\ LET length == IF _limit # None THEN _limit[1] ELSE DEFAULT_LIMIT
           cursor == Call("find", _get_find_cursor @@ [length |-> length])
       IN ops' = [ops EXCEPT ![o] = [@ EXCEPT !.kind = "find_all", !.pc = "sent",
                                               !.lazy = lazy, !.calls = <<cursor>>]]
    /\ _filters' = ClearedFilters(_filters)
    /\ UNCHANGED <<_limit, _skip, _order_fields, _loaded_fields, _reference_loaded_fields,
                   current_count, result_size, klass, documents>>

\* the closure with the test of current_count against result_size left out
AutoLoadHandleNoTest(st, results) ==
    IF st.cc = None
    THEN [st EXCEPT !.raised = Append(@, "TypeError")]
    ELSE [st EXCEPT !.cc = Some(st.cc[1] + 1), !.delivered = Append(@, results)]

\* the closure handle_find_all_auto_load_references(callback, results) returns,
\* run on st = [cc, rs, delivered, raised, ...]
AutoLoadHandle(st, results) ==
    IF st.cc = None
    THEN [st EXCEPT !.raised = Append(@, "TypeError")]
    ELSE LET c == st.cc[1] + 1 IN
         IF Some(c) = st.rs
         THEN [st EXCEPT !.cc = None, !.rs = None, !.delivered = Append(@, results)]
         ELSE [st EXCEPT !.cc = Some(c)]

\* the test of handle_find_all's second loop: is a reference load triggered
WantsLoad(lazy, doc) == (lazy # None /\ ~lazy[1]) \/ ~doc.is_lazy

\* handle_find_all's second loop, from document i on. load_references answers
\* through its callback: the load is pending until LoadComplete runs the closure
RECURSIVE FindAllLoop(_, _, _, _)
FindAllLoop(st, results, lazy, i) ==
    IF i > Len(results) THEN st
    ELSE LET doc == results[i]
             st1 == IF WantsLoad(lazy, doc)
                    THEN [st EXCEPT !.triggered = @ \cup {i}, !.pending = @ \cup {i}]
                    ELSE AutoLoadHandle(st, results)
         IN IF Len(st1.raised) > Len(st.raised) THEN st1
            ELSE FindAllLoop(st1, results, lazy, i + 1)

\* the completion handler of find_all's to_list, invoked with (batch, error)
HandleFindAll(o, batch, error) ==
    /\ ops[o].kind = "find_all" /\ ops[o].pc = "sent"
    /\ LET op == [ops[o] EXCEPT !.calls = Answered(@, 1, error)] IN
       IF error # None
       THEN /\ ops' = [ops EXCEPT ![o] = Raise([op EXCEPT !.pc = "failed"], error[1])]
            /\ UNCHANGED counterVars
       ELSE LET is_partly_loaded == FieldListBool(_loaded_fields)
                result == [i \in 1..Len(batch) |->
                              from_son(batch[i], is_partly_loaded, _reference_loaded_fields)]
                st0 == [cc |-> Some(0), rs |-> Some(Len(batch)),
                        delivered |-> op.delivered, raised |-> op.raised,
                        triggered |-> {}, pending |-> {}]
                st == IF result = <<>>
                      THEN [st0 EXCEPT !.delivered = Append(@, result)]
                      ELSE FindAllLoop(st0, result, op.lazy, 1)
            IN /\ ops' = [ops EXCEPT ![o] = [op EXCEPT !.pc = "handled",
                                                       !.results = result,
                                                       !.triggered = st.triggered,
                                                       !.pending = st.pending,
                                                       !.delivered = st.delivered,
                                                       !.raised = st.raised]]
               /\ current_count' = st.cc
               /\ result_size' = st.rs
    /\ UNCHANGED <<qsVars, klass, documents>>

\* load_references of document i of batch o completes: the shared closure runs
LoadComplete(o, i) ==
    /\ ops[o].kind = "find_all" /\ i \in ops[o].pending
    /\ LET st0 == [cc |-> current_count, rs |-> result_size,
                   delivered |-> ops[o].delivered, raised |-> ops[o].raised]
           st == AutoLoadHandle(st0, ops[o].results)
       IN /\ ops' = [ops EXCEPT ![o] = [@ EXCEPT !.pending = @ \ {i},
                                                 !.delivered = st.delivered,
                                                 !.raised = st.raised]]
          /\ current_count' = st.cc
          /\ result_size' = st.rs
    /\ UNCHANGED <<qsVars, klass, documents>>

(***************************************************************************)
(* count.                                                                  *)
(***************************************************************************)
\* count: builds the cursor, clears the filter state, counts on the cursor
Count(o) ==
    /\ Free(o)
    /\ ops' = [ops EXCEPT ![o] = [@ EXCEPT !.kind = "count", !.pc = "sent",
                                          !.calls = <<Call("count", _get_find_cursor)>>]]
    /\ _filters' = ClearedFilters(_filters)
    /\ UNCHANGED <<_limit, _skip, _order_fields, _loaded_fields, _reference_loaded_fields,
                   current_count, result_size, klass, documents>>

\* the closure handle_count returns, invoked with (n, error)
HandleCount(o, n, error) ==
    /\ ops[o].kind = "count" /\ ops[o].pc = "sent"
    /\ LET op == [ops[o] EXCEPT !.calls = Answered(@, 1, error)] IN
       ops' = [ops EXCEPT ![o] =
                  IF error # None THEN Raise([op EXCEPT !.pc = "failed"], error[1])
                  ELSE Deliver([op EXCEPT !.pc = "handled"], n)]
    /\ UNCHANGED <<qsVars, counterVars, klass, documents>>

(***************************************************************************)
(* get.                                                                    *)
(***************************************************************************)
\* get(id, **kwargs): find_one with its own filter and the current projection
Get(o, id, kwargs) ==
    /\ Free(o)
    /\ ops' = [ops EXCEPT ![o] =
          IF id = None /\ kwargs = {}
          THEN Raise([@ EXCEPT !.kind = "get", !.pc = "failed"], "RuntimeError")
          ELSE LET filters == IF id # None THEN {"_id"} ELSE get_query_from_filters(kwargs)
               IN [@ EXCEPT !.kind = "get", !.pc = "sent",
                            !.calls = <<Call("find_one",
                                [filter |-> filters,
                                 projection |-> FieldListToQuery(_loaded_fields)])>>]]
    /\ UNCHANGED <<qsVars, counterVars, klass, documents>>

\* handle_get with the test of self.is_lazy left out: the document is always
\* handed to the continuation at once
HandleGetNoLazyTest(o, instance, error) ==
    /\ ops[o].kind = "get" /\ ops[o].pc = "sent"
    /\ LET op == [ops[o] EXCEPT !.calls = Answered(@, 1, error)] IN
       ops' = [ops EXCEPT ![o] =
          IF instance = None
          THEN Deliver([op EXCEPT !.pc = "handled"], None)
          ELSE LET doc == from_son(instance[1], FieldListBool(_loaded_fields),
                                   _reference_loaded_fields)
               IN Deliver([op EXCEPT !.pc = "handled", !.results = <<doc>>], Some(doc))]
    /\ UNCHANGED <<qsVars, counterVars, klass, documents>>

\* the closure handle_get returns, invoked with (instance, error)
HandleGet(o, instance, error) ==
    /\ ops[o].kind = "get" /\ ops[o].pc = "sent"
    /\ LET op == [ops[o] EXCEPT !.calls = Answered(@, 1, error)] IN
       ops' = [ops EXCEPT ![o] =
          IF instance = None
          THEN Deliver([op EXCEPT !.pc = "handled"], None)
          ELSE LET doc == from_son(instance[1], FieldListBool(_loaded_fields),
                                   _reference_loaded_fields)
               IN IF klass.__lazy__
                  THEN Deliver([op EXCEPT !.pc = "handled", !.results = <<doc>>], Some(doc))
                  ELSE [op EXCEPT !.pc = "loading", !.results = <<doc>>,
                                  !.triggered = {1}, !.pending = {1}]]
    /\ UNCHANGED <<qsVars, counterVars, klass, documents>>

\* the closure handle_auto_load_references(doc, callback) returns, invoked by
\* load_references with a result (with_args) or with no argument
HandleAutoLoadReferences(o, with_args) ==
    /\ ops[o].kind = "get" /\ ops[o].pc = "loading"
    /\ ops' = [ops EXCEPT ![o] =
          Deliver([@ EXCEPT !.pc = "handled", !.pending = {}],
                  IF with_args THEN Some(ops[o].results[1]) ELSE None)]
    /\ UNCHANGED <<qsVars, counterVars, klass, documents>>

(***************************************************************************)
(* update.                                                                 *)
(***************************************************************************)
\* update(definition, callback): a multi-document $set under the current filter
Update(o, has_callback) ==
    /\ Free(o)
    /\ ops' = [ops EXCEPT ![o] =
          IF ~has_callback
          THEN Raise([@ EXCEPT !.kind = "update", !.pc = "failed"], "RuntimeError")
          ELSE LET update_filters ==
                       IF _filters # {} THEN get_query_from_filters(_filters) ELSE {}
               IN [@ EXCEPT !.kind = "update", !.pc = "sent",
                            !.calls = <<Call("update", [spec |-> update_filters,
                                                        multi |-> TRUE])>>]]
    /\ UNCHANGED <<qsVars, counterVars, klass, documents>>

\* the closure handle_update_documents returns, invoked with (result, error)
HandleUpdateDocuments(o, n, error) ==
    /\ ops[o].kind = "update" /\ ops[o].pc = "sent"
    /\ LET op == [ops[o] EXCEPT !.calls = Answered(@, 1, error)] IN
       ops' = [ops EXCEPT ![o] =
                  IF error # None THEN Raise([op EXCEPT !.pc = "failed"], error[1])
                  ELSE Deliver([op EXCEPT !.pc = "handled"],
                               [count |-> n, updated_existing |-> n > 0])]
    /\ UNCHANGED <<qsVars, counterVars, klass, documents>>

(***************************************************************************)
(* remove and delete.                                                      *)
(***************************************************************************)
\* remove(instance, callback); delete(callback) is remove(callback=callback)
Remove(o, instance, has_callback) ==
    /\ Free(o)
    /\ ops' = [ops EXCEPT ![o] =
          LET op == [@ EXCEPT !.kind = "remove", !.arg = instance] IN
          IF ~has_callback THEN Raise([op EXCEPT !.pc = "failed"], "RuntimeError")
          ELSE IF instance # None
          THEN IF documents[instance[1]]._id # None
               THEN [op EXCEPT !.pc = "sent",
                       !.calls = <<Call("remove", [spec |-> documents[instance[1]]._id])>>]
               ELSE [op EXCEPT !.pc = "returned"]
          ELSE IF _filters # {}
               THEN [op EXCEPT !.pc = "sent",
                       !.calls = <<Call("remove",
                                        [spec |-> Some(get_query_from_filters(_filters))])>>]
               ELSE [op EXCEPT !.pc = "sent", !.calls = <<Call("remove", [spec |-> None])>>]]
    /\ UNCHANGED <<qsVars, counterVars, klass, documents>>

\* the closure handle_remove returns, invoked with (result, error): it reads
\* result['n'] whatever the error, and a None result raises TypeError
HandleRemove(o, result, error) ==
    /\ ops[o].kind = "remove" /\ ops[o].pc = "sent"
    /\ LET op == [ops[o] EXCEPT !.calls = Answered(@, 1, error)] IN
       ops' = [ops EXCEPT ![o] =
                  IF result = None THEN Raise([op EXCEPT !.pc = "failed"], "TypeError")
                  ELSE Deliver([op EXCEPT !.pc = "handled"], result[1])]
    /\ UNCHANGED <<qsVars, counterVars, klass, documents>>

(***************************************************************************)
(* save, ensure_index and bulk_insert.                                     *)
(***************************************************************************)
\* what document.validate() / the isinstance test of validate_document answer
Validities == {"ok", "false", "raises", "wrong_type"}

\* save's checks with the is_partly_loaded test left out
SaveChecksNoPartly(is_partly_loaded, valid) ==
    IF valid = "wrong_type" THEN "ValueError"
    ELSE IF valid = "raises" THEN "ValidationError"
    ELSE IF valid = "false" THEN "return"
    ELSE "proceed"

\* the checks of save and validate_document, in order: the error raised, "return"
\* when validate() answers False, "proceed" when the document may be saved
SaveChecks(is_partly_loaded, valid) ==
    IF is_partly_loaded THEN "PartlyLoadedDocumentError"
    ELSE IF valid = "wrong_type" THEN "ValueError"
    ELSE IF valid = "raises" THEN "ValidationError"
    ELSE IF valid = "false" THEN "return"
    ELSE "proceed"

\* the store call of indexes_saved_before_save: update-by-identity or insert
WriteCall(_id) ==
    IF _id # None THEN Call("update", [spec |-> _id, multi |-> FALSE])
    ELSE Call("insert", [docs |-> <<_id>>])

\* the closure indexes_saved_before_save returns: issues the write of save
IndexesSavedBeforeSave(op) ==
    [op EXCEPT !.pc = "writing",
               !.calls = Append(@, WriteCall(documents[op.arg.document]._id))]

\* handle_ensure_index with the test of created_indexes against total left out
IndexesDoneAlways(created_indexes, total_indexes) == TRUE

\* the test of handle_ensure_index: have all index calls been answered
IndexesDone(created_indexes, total_indexes) == ~(created_indexes < total_indexes)

\* what the callback handed to ensure_index does when it is invoked with total
EnsureIndexCallback(op, total) ==
    IF op.kind = "save" THEN IndexesSavedBeforeSave(op)
    ELSE Deliver([op EXCEPT !.pc = "handled"], total)

\* ensure_index: one store call per unique/sparse field, callback(0) if none
ensure_index(op) ==
    LET total == klass.indexes
        issued == [op EXCEPT !.pc = "indexing", !.total_indexes = total,
                             !.calls = [k \in 1..total |->
                                           Call("ensure_index", [field |-> k])]]
    IN IF total = 0 THEN EnsureIndexCallback(issued, 0) ELSE issued

\* save(document, callback)
Save(o, d, is_partly_loaded, valid) ==
    /\ Free(o)
    /\ ops' = [ops EXCEPT ![o] =
          LET op == [@ EXCEPT !.kind = "save",
                              !.arg = [document |-> d,
                                       is_partly_loaded |-> is_partly_loaded,
                                       valid |-> valid]]
              check == SaveChecks(is_partly_loaded, valid)
          IN IF check = "proceed" THEN ensure_index(op)
             ELSE IF check = "return" THEN [op EXCEPT !.pc = "returned"]
             ELSE Raise([op EXCEPT !.pc = "failed"], check)]
    /\ UNCHANGED <<qsVars, counterVars, klass, documents>>

\* ensure_index(callback)
EnsureIndex(o) ==
    /\ Free(o)
    /\ ops' = [ops EXCEPT ![o] = ensure_index([@ EXCEPT !.kind = "ensure_index"])]
    /\ UNCHANGED <<qsVars, counterVars, klass, documents>>

\* the closure handle_ensure_index returns, invoked for call k with (name, error)
HandleEnsureIndex(o, k, error) ==
    /\ ops[o].kind \in {"save", "ensure_index"}
    /\ k \in InFlight(ops[o]) /\ ops[o].calls[k].op = "ensure_index"
    /\ LET op == [ops[o] EXCEPT !.calls = Answered(@, k, error)] IN
       ops' = [ops EXCEPT ![o] =
          IF error # None THEN Raise(op, error[1])
          ELSE LET added == [op EXCEPT !.created_indexes = @ + 1] IN
               IF IndexesDone(added.created_indexes, added.total_indexes)
               THEN EnsureIndexCallback(added, added.total_indexes)
               ELSE added]
    /\ UNCHANGED <<qsVars, counterVars, klass, documents>>

\* the error handle_save raises for a store error
SaveError(error) ==
    IF error = "DuplicateKeyError" THEN "UniqueKeyViolationError" ELSE error

\* the closure handle_save returns (callback of save's insert), invoked with (id, error)
HandleSave(o, id, error) ==
    /\ ops[o].kind = "save" /\ ops[o].pc = "writing"
    /\ LET k == Len(ops[o].calls)
           d == ops[o].arg.document
           op == [ops[o] EXCEPT !.calls = Answered(@, k, error)]
       IN /\ ops[o].calls[k].op = "insert" /\ k \in InFlight(ops[o])
          /\ IF error # None
             THEN /\ ops' = [ops EXCEPT ![o] = Raise([op EXCEPT !.pc = "failed"],
                                                     SaveError(error[1]))]
                  /\ UNCHANGED documents
             ELSE /\ documents' = [documents EXCEPT ![d]._id = Some(id)]
                  /\ ops' = [ops EXCEPT ![o] =
                        Deliver([op EXCEPT !.pc = "handled"], [document |-> d, _id |-> Some(id)])]
    /\ UNCHANGED <<qsVars, counterVars, klass>>

\* the closure handle_update returns (callback of save's update), invoked with (result, error)
HandleUpdate(o, error) ==
    /\ ops[o].kind = "save" /\ ops[o].pc = "writing"
    /\ LET k == Len(ops[o].calls)
           d == ops[o].arg.document
           op == [ops[o] EXCEPT !.calls = Answered(@, k, error)]
       IN /\ ops[o].calls[k].op = "update" /\ k \in InFlight(ops[o])
          /\ ops' = [ops EXCEPT ![o] =
                IF error # None THEN Raise([op EXCEPT !.pc = "failed"], error[1])
                ELSE Deliver([op EXCEPT !.pc = "handled"],
                             [document |-> d, _id |-> documents[d]._id])]
    /\ UNCHANGED <<qsVars, counterVars, klass, documents>>

\* the index of the first document of the list whose validation raises or
\* answers False, Len + 1 if there is none
RECURSIVE FirstInvalid(_, _)
FirstInvalid(valids, i) ==
    IF i > Len(valids) \/ valids[i] # "ok" THEN i ELSE FirstInvalid(valids, i + 1)

\* bulk_insert(documents, callback): valids are the answers of the validations
BulkInsert(o, valids) ==
    /\ Free(o)
    /\ ops' = [ops EXCEPT ![o] =
          LET op == [@ EXCEPT !.kind = "bulk_insert", !.arg = valids]
              i == FirstInvalid(valids, 1)
          IN IF i > Len(valids)
             THEN [op EXCEPT !.pc = "sent",
                             !.calls = <<Call("insert", [docs |-> [j \in 1..Len(valids) |-> None]])>>]
             ELSE IF valids[i] = "false" THEN [op EXCEPT !.pc = "returned"]
             ELSE Raise([op EXCEPT !.pc = "failed", !.error_index = Some(i - 1)], "ValueError")]
    /\ UNCHANGED <<qsVars, counterVars, klass, documents>>

\* the closure handle_bulk_insert returns, invoked with (ids, error)
HandleBulkInsert(o, error) ==
    /\ ops[o].kind = "bulk_insert" /\ ops[o].pc = "sent"
    /\ LET op == [ops[o] EXCEPT !.calls = Answered(@, 1, error)] IN
       ops' = [ops EXCEPT ![o] =
          IF error # None THEN Raise([op EXCEPT !.pc = "failed"], error[1])
          ELSE Deliver([op EXCEPT !.pc = "handled"],
                       [j \in 1..Len(op.arg) |-> Some(j)])]
    /\ UNCHANGED <<qsVars, counterVars, klass, documents>>

(***************************************************************************)
(* Specifications.                                                         *)
(***************************************************************************)
LazyArgs == {None, Some(TRUE), Some(FALSE)}
Counts == 0..MaxBatch

\* no batch is waiting for reference loads
NoBatchInFlight == \A p \in Ops : ops[p].pending = {}

IssueFindAll == \E o \in Ops, lazy \in LazyArgs : FindAll(o, lazy)
AnswerFindAll == \E o \in Ops, batch \in Batches : HandleFindAll(o, batch, None)
FailFindAll == \E o \in Ops, e \in StoreErrors : HandleFindAll(o, None, Some(e))
AnswerLoad == \E o \in Ops, i \in 1..MaxBatch : LoadComplete(o, i)

IssueCount == \E o \in Ops : Count(o)
AnswerCount == \E o \in Ops, n \in Counts : HandleCount(o, n, None)
FailCount == \E o \in Ops, e \in StoreErrors : HandleCount(o, None, Some(e))

IssueGet == \E o \in Ops : Get(o, Some("id0"), {}) \/ Get(o, None, {"a"}) \/ Get(o, None, {})
AnswerGet == \E o \in Ops :
    HandleGet(o, None, None) \/ HandleGet(o, Some([is_lazy |-> klass.__lazy__]), None)
FailGet == \E o \in Ops, e \in StoreErrors : HandleGet(o, None, Some(e))
AnswerGetLoad == \E o \in Ops, with_args \in BOOLEAN : HandleAutoLoadReferences(o, with_args)

IssueUpdate == \E o \in Ops, has_callback \in BOOLEAN : Update(o, has_callback)
AnswerUpdate == \E o \in Ops, n \in Counts : HandleUpdateDocuments(o, n, None)
FailUpdate == \E o \in Ops, e \in StoreErrors : HandleUpdateDocuments(o, None, Some(e))

IssueRemove == \E o \in Ops, has_callback \in BOOLEAN :
    Remove(o, None, has_callback) \/ \E d \in Docs : Remove(o, Some(d), has_callback)
AnswerRemove == \E o \in Ops, n \in Counts : HandleRemove(o, Some(n), None)
FailRemove == \E o \in Ops, e \in StoreErrors : HandleRemove(o, None, Some(e))

CallFilter == \E c \in Conds : Filter(c)
CallOnly == \E f \in FieldNames : Only({f})
CallExclude == \E f \in FieldNames : Exclude({f})

\* find_all operations whose batches may overlap
NextFind == IssueFindAll \/ AnswerFindAll \/ FailFindAll \/ AnswerLoad
InitFind == Init /\ klass = [__lazy__ |-> TRUE, indexes |-> 0]
                 /\ documents = [d \in Docs |-> [_id |-> None]]
SpecFind == InitFind /\ [][NextFind]_vars

\* find_all operations, each batch answered when no other batch is in flight
NextOneBatch ==
    \/ IssueFindAll
    \/ (NoBatchInFlight /\ AnswerFindAll)
    \/ FailFindAll
    \/ AnswerLoad
SpecOneBatch == InitFind /\ [][NextOneBatch]_vars

\* filter calls interleaved with the terminal operations that read the filter
\* state; every store call is answered with a small result
NextFilter ==
    \/ CallFilter
    \/ (\E o \in Ops : FindAll(o, None))
    \/ (\E o \in Ops : HandleFindAll(o, <<>>, None))
    \/ IssueCount
    \/ (\E o \in Ops : HandleCount(o, 0, None))
    \/ (\E o \in Ops : Get(o, None, {"a"}))
    \/ (\E o \in Ops : HandleGet(o, None, None))
    \/ (\E o \in Ops : Update(o, TRUE))
    \/ (\E o \in Ops : HandleUpdateDocuments(o, 0, None))
    \/ (\E o \in Ops : Remove(o, None, TRUE))
    \/ (\E o \in Ops : HandleRemove(o, Some(0), None))
InitFilter == Init /\ klass = [__lazy__ |-> TRUE, indexes |-> 0]
                   /\ documents = [d \in Docs |-> [_id |-> None]]
SpecFilter == InitFilter /\ [][NextFilter]_vars

\* projection builder calls interleaved with get and find_all
NextProjection ==
    \/ CallOnly \/ CallExclude \/ AllFields
    \/ (\E o \in Ops : FindAll(o, None))
    \/ (\E o \in Ops, batch \in Batches : Len(batch) <= 1 /\ HandleFindAll(o, batch, None))
    \/ AnswerLoad
    \/ (\E o \in Ops : Get(o, Some("id0"), {}))
    \/ AnswerGet \/ AnswerGetLoad
InitProjection == Init /\ klass.indexes = 0 /\ documents = [d \in Docs |-> [_id |-> None]]
SpecProjection == InitProjection /\ [][NextProjection]_vars

\* only, exclude and all_fields interleaved with get and find_all on a lazy type,
\* every read answered with one record
NextAllFields ==
    \/ CallOnly \/ CallExclude \/ AllFields
    \/ (\E o \in Ops : Get(o, Some("id0"), {}))
    \/ (\E o \in Ops : HandleGet(o, Some([is_lazy |-> TRUE]), None))
    \/ (\E o \in Ops : FindAll(o, None))
    \/ (\E o \in Ops : HandleFindAll(o, <<[is_lazy |-> TRUE]>>, None))
SpecAllFields == InitFilter /\ [][NextAllFields]_vars

\* chained filter calls in every argument form
FilterConds == Conds \cup {"c"}
NextFilterForms == \E o \in Ops, form \in FilterForms, conds \in SUBSET FilterConds :
    FilterArguments(o, form, conds)
SpecFilterForms == InitFilter /\ [][NextFilterForms]_vars

\* order_by by name: a declared field or a name the type does not declare
OrderByName == \E o \in Ops, field_name \in DeclaredNames \cup {"bogus"},
                  direction \in {ASCENDING, DESCENDING} :
    order_by(o, field_name, None, direction)
\* order_by by field handle: a field of the type, or a field object of another type
OrderByHandle == \E o \in Ops, field_name \in DeclaredNames \cup {"bogus"},
                    direction \in {ASCENDING, DESCENDING} :
    order_by(o, field_name,
             Some(IF field_name \in DeclaredNames THEN _fields("Post")[field_name].class
                  ELSE "BaseField"),
             direction)

\* order_by calls interleaved with find_all
NextOrderBy ==
    \/ OrderByName \/ OrderByHandle
    \/ (\E o \in Ops : FindAll(o, None))
    \/ (\E o \in Ops : HandleFindAll(o, <<>>, None))
SpecOrderBy == InitFilter /\ [][NextOrderBy]_vars

\* get operations on a lazy or a non-lazy document type, with every answer of
\* the store and of the reference loader
NextGet == IssueGet \/ AnswerGet \/ FailGet \/ AnswerGetLoad
InitGet == Init /\ klass.indexes = 0 /\ documents = [d \in Docs |-> [_id |-> None]]
SpecGet == InitGet /\ [][NextGet]_vars

\* filter and projection builder calls interleaved with count
NextCount ==
    \/ Filter("a")
    \/ CallOnly \/ CallExclude \/ AllFields
    \/ IssueCount
    \/ (\E o \in Ops : HandleCount(o, 0, None))
    \/ (\E o \in Ops : HandleCount(o, None, Some("StoreError")))
SpecCount == InitFilter /\ [][NextCount]_vars

\* one projection builder call on a dotted path: only, exclude or fields
CallOnlyPath == \E o \in 1..MaxBuilds, path \in Paths : OnlyPaths(o, <<path>>)
CallExcludePath == \E o \in 1..MaxBuilds, path \in Paths : ExcludePaths(o, <<path>>)
CallFieldsPath == \E o \in 1..MaxBuilds, path \in Paths, value \in {QFL_ONLY, QFL_EXCLUDE} :
    FieldsKwargs(o, "fields", FALSE, <<(<<path, value>>)>>)

\* the arguments of an only call: one or two declared fields of the document type
NameLists == {<<(<<a>>)>> : a \in DeclaredNames}
                 \cup {<<(<<a>>), (<<b>>)>> : a \in DeclaredNames, b \in DeclaredNames}

\* chained only calls on declared fields, on a QuerySet created fresh
NextOnly == \E o \in Ops, names \in NameLists : OnlyPaths(o, names)
SpecOnly == InitFilter /\ [][NextOnly]_vars

\* every builder call that sets a component of the query, interleaved with
\* find_all and count
NextSettings ==
    \/ Filter("a")
    \/ skip(1)
    \/ (\E n \in {0, 1} : limit(n))
    \/ CallOnly
    \/ (\E o \in 1..MaxBuilds : OnlyPaths(o, <<(<<"author", "title">>)>>))
    \/ (\E o \in Ops : order_by(o, "title", None, DESCENDING))
    \/ (\E o \in Ops : FindAll(o, None))
    \/ IssueCount
SpecSettings == InitFilter /\ [][NextSettings]_vars

\* remove and delete of an instance, by filter and of everything
NextRemove == CallFilter \/ IssueRemove \/ AnswerRemove \/ FailRemove
SpecRemove == InitFilter /\ [][NextRemove]_vars

\* field specifications that lead to a reference field, stop at it, go beyond it
\* or end in a dot
RefComponents == {"title", "meta", "author", "editors", ""}
RefPaths == UNION {[1..n -> RefComponents] : n \in 1..MaxPath}

\* only, exclude and fields calls on such a specification
NextRefs ==
    \/ (\E o \in 1..MaxBuilds, path \in RefPaths : OnlyPaths(o, <<path>>))
    \/ (\E o \in 1..MaxBuilds, path \in RefPaths : ExcludePaths(o, <<path>>))
    \/ (\E o \in 1..MaxBuilds, path \in RefPaths, value \in {QFL_ONLY, QFL_EXCLUDE} :
            FieldsKwargs(o, "fields", FALSE, <<(<<path, value>>)>>))
SpecRefs == InitFilter /\ [][NextRefs]_vars

\* only and exclude on paths around reference fields, all_fields, and get and
\* find_all with one record answered
NestedPaths == {<<"title">>, <<"author">>, <<"author", "title">>,
                <<"editors", "title">>, <<"meta", "author">>}
NextNested ==
    \/ (\E o \in 1..MaxBuilds, path \in NestedPaths : OnlyPaths(o, <<path>>))
    \/ (\E o \in 1..MaxBuilds, path \in NestedPaths : ExcludePaths(o, <<path>>))
    \/ AllFields
    \/ (\E o \in Ops : Get(o, Some("id0"), {}))
    \/ (\E o \in Ops : HandleGet(o, Some([is_lazy |-> TRUE]), None))
    \/ (\E o \in Ops : FindAll(o, None))
    \/ (\E o \in Ops : HandleFindAll(o, <<[is_lazy |-> TRUE]>>, None))
SpecNested == InitFilter /\ [][NextNested]_vars

\* a plain field, a path beyond a reference field and an undeclared name
MixedPaths == {<<"title">>, <<"author", "title">>, <<"bogus">>}
\* the names of a call become the keys of a dict: one of them, or two different ones
PathLists == {<<p>> : p \in MixedPaths}
                 \cup {<<pq[1], pq[2]>> :
                          pq \in {x \in MixedPaths \X MixedPaths : x[1] # x[2]}}

\* only and exclude calls given several field specifications at once
NextMixed ==
    \/ (\E o \in Ops, paths \in PathLists : OnlyPaths(o, paths))
    \/ (\E o \in Ops, paths \in PathLists : ExcludePaths(o, paths))
SpecMixed == InitFilter /\ [][NextMixed]_vars

\* projection builder calls on dotted paths
NextWalk == CallOnlyPath \/ CallExcludePath \/ CallFieldsPath
SpecWalk == InitFilter /\ [][NextWalk]_vars

IssueSave == \E o \in Ops, d \in Docs, is_partly_loaded \in BOOLEAN, valid \in Validities :
    Save(o, d, is_partly_loaded, valid)
IssueEnsureIndex == \E o \in Ops : EnsureIndex(o)
AnswerEnsureIndex == \E o \in Ops, k \in 1..MaxIndexes : HandleEnsureIndex(o, k, None)
FailEnsureIndex == \E o \in Ops, k \in 1..MaxIndexes, e \in StoreErrors :
    HandleEnsureIndex(o, k, Some(e))
AnswerInsert == \E o \in Ops : HandleSave(o, "id1", None)
FailInsert == \E o \in Ops, e \in StoreErrors : HandleSave(o, None, Some(e))
AnswerSaveUpdate == \E o \in Ops : HandleUpdate(o, None)
FailSaveUpdate == \E o \in Ops, e \in StoreErrors : HandleUpdate(o, Some(e))

ValidLists == UNION {[1..n -> {"ok", "false", "raises"}] : n \in 0..MaxBatch}
IssueBulkInsert == \E o \in Ops, valids \in ValidLists : BulkInsert(o, valids)
AnswerBulkInsert == \E o \in Ops : HandleBulkInsert(o, None)
FailBulkInsert == \E o \in Ops, e \in StoreErrors : HandleBulkInsert(o, Some(e))

\* save operations on the documents the caller holds
NextSave ==
    \/ (\E o \in 1..MaxSaves, d \in Docs, is_partly_loaded \in BOOLEAN, valid \in Validities :
            Save(o, d, is_partly_loaded, valid))
    \/ AnswerEnsureIndex \/ FailEnsureIndex
    \/ AnswerInsert \/ FailInsert
    \/ AnswerSaveUpdate \/ FailSaveUpdate
InitSave == Init /\ klass.__lazy__
SpecSave == InitSave /\ [][NextSave]_vars

\* every terminal operation with every answer of the store, no builder call
Next ==
    \/ (\E o \in Ops : FindAll(o, None))
    \/ (\E o \in Ops, batch \in Batches : Len(batch) <= 1 /\ HandleFindAll(o, batch, None))
    \/ FailFindAll \/ AnswerLoad
    \/ IssueCount \/ AnswerCount \/ FailCount
    \/ IssueGet \/ AnswerGet \/ FailGet \/ AnswerGetLoad
    \/ IssueUpdate \/ AnswerUpdate \/ FailUpdate
    \/ IssueRemove \/ AnswerRemove \/ FailRemove
    \/ IssueSave
    \/ IssueEnsureIndex \/ AnswerEnsureIndex \/ FailEnsureIndex
    \/ AnswerInsert \/ FailInsert
    \/ AnswerSaveUpdate \/ FailSaveUpdate
    \/ IssueBulkInsert \/ AnswerBulkInsert \/ FailBulkInsert
Spec == Init /\ [][Next]_vars

(***************************************************************************)
(* Properties of find_all and the batch reference loader.                  *)
(***************************************************************************)
IsFindAll(o) == ops[o].kind = "find_all"
Handled(o) == ops[o].pc = "handled"

\* the continuation of find_all o was invoked at most once, with o's own batch,
\* not while a reference load of o is pending, and exactly once when none is left
DeliveredOnceAfterLoads(o) ==
    /\ Len(ops[o].delivered) <= 1
    /\ \A k \in 1..Len(ops[o].delivered) : ops[o].delivered[k] = ops[o].results
    /\ ops[o].delivered # <<>> => ops[o].pending = {}
    /\ Handled(o) /\ ops[o].pending = {} => Len(ops[o].delivered) = 1

C2_PerBatchCounters ==
    \A o \in Ops : IsFindAll(o) =>
        /\ DeliveredOnceAfterLoads(o)
        /\ "TypeError" \notin {ops[o].raised[k] : k \in 1..Len(ops[o].raised)}

\* C3: find_all's lazy argument overrides the document's own lazy setting both
\* ways: lazy=True triggers no reference load, lazy=False one for every document.
C3_LazyArgOverrides ==
    \A o \in Ops : IsFindAll(o) /\ Handled(o) =>
        /\ ops[o].lazy = Some(TRUE) => ops[o].triggered = {}
        /\ ops[o].lazy = Some(FALSE) => ops[o].triggered = 1..Len(ops[o].results)

(***************************************************************************)
(* Properties of the filter state.                                         *)
(***************************************************************************)
\* operation o dispatches its store call in this step
Dispatches(o) == ops[o].pc = "idle" /\ ops'[o].pc = "sent"
IsRead(op) == op.kind \in {"find_all", "count"}

\* C6: find_all and count leave the filter state empty as soon as the cursor is
\* built, before any completion callback; nothing but a filter call makes it
\* non-empty again, so the next find_all or count issued with no filter call in
\* between is sent with the empty (match-all) filter.
C6_ReadClearsFilter ==
    [][/\ \A o \in Ops : Dispatches(o) /\ IsRead(ops'[o]) =>
              /\ _filters' = {}
              /\ InFlight(ops'[o]) = {1}
              /\ _filters = {} => ops'[o].calls[1].args.filter = {}
       /\ _filters = {} /\ ~CallFilter => _filters' = {}]_vars

\* a read sent with a non-empty filter is still unanswered, the filter state is
\* empty and the read that followed it was sent with the empty filter
C6_Witness ==
    /\ _filters = {}
    /\ IsRead(ops[1]) /\ ops[1].pc = "sent" /\ ops[1].calls[1].args.filter # {}
    /\ IsRead(ops[2]) /\ ops[2].pc = "sent" /\ ops[2].calls[1].args.filter = {}

\* C7: after each of get, find_all, count, update and remove/delete has dispatched
\* its store call, the filter state of the QuerySet is empty.
C7_TerminalClearsFilter ==
    [][\A o \in Ops : Dispatches(o) => _filters' = {}]_vars

(***************************************************************************)
(* Properties of the projection.                                           *)
(***************************************************************************)
\* C8: a document materialized by get or find_all is flagged partly loaded iff the
\* projection sent with the store call that produced it was non-empty, whatever
\* builder calls were made between the dispatch and the completion callback.
C8_PartlyLoadedIffProjectionSent ==
    \A o \in Ops : ops[o].kind \in {"get", "find_all"} =>
        \A i \in 1..Len(ops[o].results) :
            ops[o].results[i]._is_partly_loaded
                <=> (DOMAIN ops[o].calls[1].args.projection # {})

(***************************************************************************)
(* Properties of the completion handlers.                                  *)
(***************************************************************************)
RaisedBy(op) == {op.raised[k] : k \in 1..Len(op.raised)}
\* the store calls of op that were answered with an error
FailedCalls(op) ==
    {k \in 1..Len(op.calls) : op.calls[k].answer # None /\ op.calls[k].answer # Some("ok")}

\* C4: whenever the store answers a call of any operation (save's insert or update,
\* bulk_insert, update, remove, get, find_all, count, ensure_index) with an error,
\* that error (for save's insert, its translation) is raised and the caller's
\* continuation is not invoked.
C4_StoreErrorRaised ==
    \A o \in Ops : \A k \in FailedCalls(ops[o]) :
        /\ \/ ops[o].calls[k].answer[1] \in RaisedBy(ops[o])
           \/ SaveError(ops[o].calls[k].answer[1]) \in RaisedBy(ops[o])
        /\ ops[o].delivered = <<>>

\* C5: get hands None to the continuation only when find_one answered without
\* error and with no record; when find_one answered with a record the continuation
\* receives the materialized document.
C5_NotFoundOnlyWhenNoRecord ==
    \A o \in Ops : ops[o].kind = "get" =>
        \A k \in 1..Len(ops[o].delivered) :
            /\ ops[o].delivered[k] = None =>
                   ops[o].calls[1].answer = Some("ok") /\ ops[o].results = <<>>
            /\ ops[o].results # <<>> => ops[o].delivered[k] = Some(ops[o].results[1])

(***************************************************************************)
(* Properties of save.                                                     *)
(***************************************************************************)
IsSave(o) == ops[o].kind = "save"
PreconditionsHold(op) == ~op.arg.is_partly_loaded /\ op.arg.valid = "ok"
IndexCalls(op) == {k \in 1..Len(op.calls) : op.calls[k].op = "ensure_index"}
WriteCalls(op) == {k \in 1..Len(op.calls) : op.calls[k].op \in {"insert", "update"}}

\* C9: a save of a partly loaded document raises PartlyLoadedDocumentError, and a
\* save whose preconditions fail (partly loaded, or not passing validation) issues
\* no store call and never invokes the continuation.
C9_FailedSaveIssuesNothing ==
    \A o \in Ops : IsSave(o) /\ ~PreconditionsHold(ops[o]) =>
        /\ ops[o].calls = <<>>
        /\ ops[o].delivered = <<>>
        /\ ops[o].arg.is_partly_loaded => ops[o].raised = <<"PartlyLoadedDocumentError">>

\* a save refused because the document, otherwise valid, is partly loaded, for a
\* type with index fields and a document that has an identity
C9_Witness ==
    \E o \in Ops :
        /\ IsSave(o) /\ ops[o].arg.is_partly_loaded /\ ops[o].arg.valid = "ok"
        /\ ops[o].pc = "failed"
        /\ klass.indexes = MaxIndexes
        /\ documents[ops[o].arg.document]._id # None

\* C10: a save that passes its preconditions issues one ensure-index call per
\* unique/sparse field and at most one write; the write is issued only when every
\* ensure-index call has been answered without error, and is issued once they all
\* have; it is an update-by-identity when the document has an identity, an insert
\* when it has none. After a failed ensure-index call no write is issued.
C10_OneWriteAfterIndexes ==
    \A o \in Ops : IsSave(o) /\ PreconditionsHold(ops[o]) =>
        LET op == ops[o]
            all_ensured == \A k \in IndexCalls(op) : op.calls[k].answer = Some("ok")
        IN /\ Cardinality(IndexCalls(op)) = klass.indexes
           /\ Cardinality(WriteCalls(op)) <= 1
           /\ WriteCalls(op) # {} => all_ensured
           /\ all_ensured => Cardinality(WriteCalls(op)) = 1
           /\ \A k \in WriteCalls(op) :
                  /\ k > Cardinality(IndexCalls(op))
                  /\ op.calls[k].op = "update" => op.calls[k].args.spec # None
                  /\ op.calls[k].op = "insert" => op.calls[k].args.docs = <<None>>

\* a save whose insert was answered after all the index calls of a type with
\* several index fields
C10_Witness ==
    \E o \in Ops :
        /\ klass.indexes = MaxIndexes
        /\ IsSave(o) /\ ops[o].pc = "handled" /\ ops[o].created_indexes = MaxIndexes
        /\ ops[o].calls[MaxIndexes + 1].op = "insert"
        /\ ops[o].delivered # <<>>

(***************************************************************************)
(* Properties of ensure_index, the writes of save and bulk_insert.         *)
(***************************************************************************)
IsEnsureIndex(o) == ops[o].kind = "ensure_index"

C12_DuplicateKeyTranslated ==
    \A o \in Ops : IsSave(o) =>
        \A k \in FailedCalls(ops[o]) \cap WriteCalls(ops[o]) :
            LET error == ops[o].calls[k].answer[1] IN
            ops[o].raised = <<IF error = "DuplicateKeyError"
                              THEN "UniqueKeyViolationError" ELSE error>>

IsBulkInsert(o) == ops[o].kind = "bulk_insert"

\* C13: a bulk_insert whose first document failing validation, by raising or by
\* answering False, is at index i issues no insert and raises a failure that names
\* index i.
C13_BulkInsertNamesIndex ==
    \A o \in Ops : IsBulkInsert(o) =>
        LET i == FirstInvalid(ops[o].arg, 1) IN
        i <= Len(ops[o].arg) =>
            /\ ops[o].calls = <<>>
            /\ ops[o].raised # <<>>
            /\ ops[o].error_index = Some(i - 1)

(***************************************************************************)
(* Properties of count.                                                    *)
(***************************************************************************)
\* C14: the store call of count carries the compiled filter only: whatever the
\* projection accumulated on the QuerySet, none is passed to the store by count.
C14_CountFilterOnly ==
    \A o \in Ops : ops[o].kind = "count" =>
        \A k \in 1..Len(ops[o].calls) : DOMAIN ops[o].calls[k].args.projection = {}

(***************************************************************************)
(* Properties of the projection builder.                                   *)
(***************************************************************************)
IsBuilderCall(o) == ops[o].kind \in {"only", "exclude", "fields"}
IsPlain(field) == field.class \in {"BaseField", "ListField"}
IsReference(field) == field.class \in {"ReferenceField", "ListField(ReferenceField)"}

\* walking path from type, some component does not name a declared field of the
\* type reached; the walk ends at a reference field (what follows is the nested
\* projection) and at a plain field
RECURSIVE HasUndeclaredComponent(_, _)
HasUndeclaredComponent(path, type) ==
    IF path = <<>> THEN FALSE
    ELSE IF Head(path) \notin DOMAIN _fields(type) THEN TRUE
    ELSE LET field == _fields(type)[Head(path)] IN
         IF IsPlain(field) \/ IsReference(field) THEN FALSE
         ELSE HasUndeclaredComponent(Tail(path), field.embedded_type[1])

\* C15: a field specification given to only, exclude or fields in which some
\* component does not name a declared field of the type reached at that point of
\* the walk makes the builder call raise, and the call issues no store call.
C15_UndeclaredComponentRaises ==
    \A o \in Ops : IsBuilderCall(o) =>
        \A k \in 1..Len(ops[o].arg) :
            HasUndeclaredComponent(ops[o].arg[k][1], "Post") =>
                /\ ops[o].pc = "failed"
                /\ ops[o].raised = <<"ValueError">>
                /\ ops[o].calls = <<>>

\* the number of components of path the walk from type consumes to reach a plain
\* (scalar or list-of-scalar) field that further components follow, 0 if none
RECURSIVE PlainFieldAt(_, _, _)
PlainFieldAt(path, type, k) ==
    IF k >= Len(path) \/ path[k] \notin DOMAIN _fields(type) THEN 0
    ELSE LET field == _fields(type)[path[k]] IN
         IF IsPlain(field) THEN k
         ELSE IF IsReference(field) THEN 0
         ELSE PlainFieldAt(path, field.embedded_type[1], k + 1)

\* C16: when the walk of a dotted path reaches a plain scalar or list-of-scalar
\* field and further components follow it, the builder call does not fail and the
\* name it resolves is the path consumed so far.
C16_WalkStopsAtPlainField ==
    \A o \in Ops : IsBuilderCall(o) /\ Len(ops[o].arg) = 1 =>
        LET path == ops[o].arg[1][1]
            k == PlainFieldAt(path, "Post", 1)
        IN k > 0 =>
              /\ ops[o].raised = <<>>
              /\ Len(ops[o].results) = 1
              /\ ops[o].results[1][1] = Join(SubSeq(path, 1, k))

\* the names given to the only calls made so far
NamesOfCall(op) == {Join(op.arg[k][1]) : k \in 1..Len(op.arg)}
RequestedByOnly == UNION {NamesOfCall(ops[o]) : o \in {p \in Ops : ops[p].kind = "only"}}

\* C17: chained only calls on declared fields union: the Projection Set after the
\* chain is the set of all names given, to be included, whatever the order of the
\* calls, their grouping and their repetitions; so only(a).only(b), only(a, b)
\* and only(b).only(a) agree and only(a).only(a) is only(a).
C17_OnlyChainIsUnion ==
    (\A o \in Ops : ops[o].kind \in {"none", "only"}) /\ RequestedByOnly # {} =>
        /\ _loaded_fields.fields = RequestedByOnly
        /\ _loaded_fields.value = QFL_ONLY
        /\ _loaded_fields._only_called
        /\ FieldListToQuery(_loaded_fields) = [n \in RequestedByOnly |-> QFL_ONLY]

\* only(a).only(b) for two different declared fields, a reference field among them
C17_Witness ==
    /\ ops[1].kind = "only" /\ ops[1].arg = <<(<<(<<"title">>), QFL_ONLY>>)>>
    /\ ops[2].kind = "only" /\ ops[2].arg = <<(<<(<<"author">>), QFL_ONLY>>)>>
    /\ _loaded_fields.fields = {"title", "author"}

IsFetch(op) == op.kind \in {"get", "find_all"}
\* operation o materializes the records it was answered with in this step
Materializes(o) == ops[o].results = <<>> /\ ops'[o].results # <<>>

\* C18: all_fields() leaves the Projection Set empty, whatever only / exclude calls
\* came before, and keeps the always-include set; while the Projection Set is as
\* all_fields() left it, a get or find_all sends no projection and the documents
\* it materializes are not flagged partly loaded.
C18_AllFieldsResets ==
    [][/\ AllFields =>
              /\ ~FieldListBool(_loaded_fields')
              /\ DOMAIN FieldListToQuery(_loaded_fields') = {}
              /\ _loaded_fields'.always_include = _loaded_fields.always_include
       /\ \A o \in Ops : ~FieldListBool(_loaded_fields) =>
              /\ Dispatches(o) /\ IsFetch(ops'[o]) =>
                     DOMAIN ops'[o].calls[1].args.projection = {}
              /\ Materializes(o) /\ IsFetch(ops'[o]) =>
                     \A i \in 1..Len(ops'[o].results) :
                         ~ops'[o].results[i]._is_partly_loaded]_vars

\* a read sent under only(...) is still unanswered; after all_fields() (the only
\* call that takes the only-mode flag back) a second read was sent with no
\* projection and its document came back not flagged
C18_Witness ==
    /\ IsFetch(ops[1]) /\ ops[1].pc = "sent"
    /\ DOMAIN ops[1].calls[1].args.projection # {}
    /\ _loaded_fields = EmptyFieldList({})
    /\ IsFetch(ops[2]) /\ ops[2].pc = "handled"
    /\ DOMAIN ops[2].calls[1].args.projection = {}
    /\ ops[2].results # <<>> /\ ~ops[2].results[1]._is_partly_loaded

(***************************************************************************)
(* Properties of filter and order_by.                                      *)
(***************************************************************************)
\* C19: in every argument form (expression, keyword comparisons, single mapping)
\* a filter call on a non-empty filter state yields the conjunction of the prior
\* expression and the new one: no prior and no new condition is dropped.
C19_FilterConjoins ==
    \A o \in Ops : ops[o].kind = "filter" /\ ops[o].arg._filters # {} =>
        /\ ops[o].arg._filters \subseteq _filters
        /\ ops[o].arg.conds \subseteq _filters

IsListTyped(field_name) ==
    field_name \in DeclaredNames /\ IsListField(_fields("Post")[field_name].class)
SortKeys(sort) == {sort[k][1] : k \in 1..Len(sort)}

\* C20: order_by on a list-typed field, given as a field handle or by its name,
\* raises and leaves the sort list as it was: no list-typed field is in the sort
\* list or in the sort a find is sent with.
C20_ListFieldNeverSorted ==
    /\ \A o \in Ops : ops[o].kind = "order_by" /\ IsListTyped(ops[o].arg.field_name) =>
           ops[o].raised = <<"ValueError">>
    /\ \A f \in SortKeys(_order_fields) : ~IsListTyped(f)
    /\ \A o \in Ops : ops[o].kind = "find_all" =>
           \A k \in 1..Len(ops[o].calls) :
               ops[o].calls[k].args.sort # None =>
                   \A f \in SortKeys(ops[o].calls[k].args.sort[1]) : ~IsListTyped(f)

(***************************************************************************)
(* Properties of get and remove.                                           *)
(***************************************************************************)
IsGet(o) == ops[o].kind = "get"

\* C21: for a get whose store call returned a record: on a lazy document type the
\* continuation is invoked with the document at once and no reference load is
\* triggered; otherwise exactly one reference load is triggered and the
\* continuation is invoked exactly once, not before that load completes.
C21_GetLoadsUnlessLazy ==
    \A o \in Ops : IsGet(o) /\ ops[o].results # <<>> =>
        IF klass.__lazy__
        THEN /\ ops[o].triggered = {}
             /\ ops[o].delivered = <<Some(ops[o].results[1])>>
        ELSE /\ ops[o].triggered = {1}
             /\ ops[o].pending # {} => ops[o].delivered = <<>>
             /\ ops[o].pending = {} => Len(ops[o].delivered) = 1

\* on a non-lazy type, one get waits for its reference load and another was
\* delivered after its load completed
C21_Witness ==
    /\ ~klass.__lazy__
    /\ IsGet(1) /\ ops[1].pc = "loading" /\ ops[1].pending = {1} /\ ops[1].delivered = <<>>
    /\ IsGet(2) /\ ops[2].pc = "handled" /\ ops[2].triggered = {1}
    /\ ops[2].delivered = <<Some(ops[2].results[1])>>

IsRemove(o) == ops[o].kind = "remove"

\* C23: every remove or delete given a continuation (of one instance, by filter
\* or of everything) issues exactly one store remove call and, once the store
\* has answered it without error, has invoked the continuation exactly once with
\* the number removed.
C23_RemoveCallsStoreOnce ==
    \A o \in Ops : IsRemove(o) /\ "RuntimeError" \notin RaisedBy(ops[o]) =>
        /\ Len(ops[o].calls) = 1
        /\ ops[o].calls[1].op = "remove"
        /\ ops[o].calls[1].answer = Some("ok") =>
               Len(ops[o].delivered) = 1 /\ ops[o].delivered[1] \in Counts

(***************************************************************************)
(* Properties of the Reference Projection Map.                             *)
(***************************************************************************)
\* the number of components of path the walk from type consumes to reach a
\* reference or list-of-references field, 0 if it reaches none
RECURSIVE ReferenceAt(_, _, _)
ReferenceAt(path, type, k) ==
    IF k > Len(path) \/ path[k] \notin DOMAIN _fields(type) THEN 0
    ELSE LET field == _fields(type)[path[k]] IN
         IF IsReference(field) THEN k
         ELSE IF IsPlain(field) THEN 0
         ELSE ReferenceAt(path, field.embedded_type[1], k + 1)

\* the nested projections of the map m registered under name, none if there are none
NestedOf(m, name) == IF name \in DOMAIN m THEN m[name] ELSE <<>>

\* the map m with the nested projection tail -> value registered under name
WithEntry(m, name, tail, value) ==
    [n \in DOMAIN m \cup {name} |->
        IF n = name
        THEN [t \in DOMAIN NestedOf(m, name) \cup {tail} |->
                 IF t = tail THEN value ELSE m[name][t]]
        ELSE m[n]]

\* C22: a builder call on a dotted path that crosses a reference or
\* list-of-references field with a non-empty tail adds the entry (path up to the
\* reference field -> tail -> requested value) to the Reference Projection Map and
\* contributes (that path, ONLY) to the Projection Set whatever the value asked;
\* with an empty tail the map is left as it was and the pair is (name, value).
C22_ReferenceCrossingRegisters ==
    [][\A o \in Ops :
        ops[o].pc = "idle" /\ IsBuilderCall(o)' /\ Len(ops'[o].arg) = 1 =>
            LET path == ops'[o].arg[1][1]
                value == ops'[o].arg[1][2]
                k == ReferenceAt(path, "Post", 1)
                name == Join(SubSeq(path, 1, k))
                tail == SubSeq(path, k + 1, Len(path))
            IN k > 0 =>
                  IF tail # <<>> /\ Join(tail) # ""
                  THEN /\ ops'[o].pc = "returned"
                       /\ ops'[o].results = <<(<<name, QFL_ONLY>>)>>
                       /\ _reference_loaded_fields' =
                              WithEntry(_reference_loaded_fields, name, Join(tail), value)
                  ELSE /\ ops'[o].pc = "returned"
                       /\ ops'[o].results = <<(<<Join(path), value>>)>>
                       /\ _reference_loaded_fields' = _reference_loaded_fields]_vars

\* exclude on a path that goes beyond a reference field: the nested projection
\* is registered with EXCLUDE and the reference field itself is included
C22_Witness ==
    \E o \in Ops :
        /\ ops[o].kind = "exclude" /\ ops[o].pc = "returned"
        /\ ops[o].arg = <<(<<(<<"author", "title">>), QFL_EXCLUDE>>)>>
        /\ ops[o].results = <<(<<"author", QFL_ONLY>>)>>
        /\ "author" \in DOMAIN _reference_loaded_fields
        /\ _reference_loaded_fields["author"]["title"] = QFL_EXCLUDE

\* C24: a fields, only or exclude call that fails with a field-resolution error
\* leaves the Query Set as it was: neither the Projection Set nor the Reference
\* Projection Map is modified, also when valid reference-crossing paths precede
\* the invalid one in the same call.
C24_FailedCallChangesNothing ==
    [][\A o \in Ops :
        ops[o].pc = "idle" /\ IsBuilderCall(o)' /\ ops'[o].pc = "failed" =>
            /\ _loaded_fields' = _loaded_fields
            /\ _reference_loaded_fields' = _reference_loaded_fields]_vars

(***************************************************************************)
(* Properties of the settings find_all and count leave in place.           *)
(***************************************************************************)
\* the skip, limit, sort and projection arguments the cursor gets from the
\* settings s, lim, sort and lf
CursorSettings(s, lim, sort, lf) ==
    [skip |-> IF s \in {None, Some(0)} THEN None ELSE s,
     limit |-> IF lim \in {None, Some(0)} THEN None ELSE lim,
     sort |-> IF sort = <<>> THEN None ELSE Some(sort),
     projection |-> FieldListToQuery(lf)]

SettingsOf(args) ==
    [skip |-> args.skip, limit |-> args.limit, sort |-> args.sort,
     projection |-> args.projection]

\* C25: find_all and count change only the filter component; the skip, the
\* limit, the sort list, the Projection Set and the Reference Projection Map are
\* as they were, and the call of the next find_all or count carries them again.
C25_ReadsKeepSettings ==
    [][\A o \in Ops : Dispatches(o) /\ IsRead(ops'[o]) =>
          /\ <<_skip, _limit, _order_fields, _loaded_fields, _reference_loaded_fields>>' =
                 <<_skip, _limit, _order_fields, _loaded_fields, _reference_loaded_fields>>
          /\ SettingsOf(ops'[o].calls[1].args) =
                 CursorSettings(_skip, _limit, _order_fields, _loaded_fields)
      ]_vars

\* a find_all with a filter, a skip, a limit and a projection, then a count
\* with no builder call in between: the count carries the same skip, limit and
\* projection and no filter
C25_Witness ==
    /\ IsFindAll(1) /\ ops[2].kind = "count"
    /\ ops[1].calls[1].args.filter # ops[2].calls[1].args.filter
    /\ SettingsOf(ops[1].calls[1].args) = SettingsOf(ops[2].calls[1].args)
    /\ ops[2].calls[1].args.skip = Some(1) /\ ops[2].calls[1].args.limit = Some(1)
    /\ DOMAIN ops[2].calls[1].args.projection # {}
    /\ _skip = Some(1) /\ _limit = Some(1)

\* the nested projections the returned only / exclude call p registered:
\* <<reference field path, tail>>, none if its path crosses no reference field
RegisteredBy(p) ==
    IF IsBuilderCall(p) /\ ops[p].pc = "returned" /\ Len(ops[p].arg) = 1
    THEN LET path == ops[p].arg[1][1]
             k == ReferenceAt(path, "Post", 1)
             tail == SubSeq(path, k + 1, Len(path))
         IN IF k > 0 /\ tail # <<>> /\ Join(tail) # ""
            THEN {<<Join(SubSeq(path, 1, k)), Join(tail)>>}
            ELSE {}
    ELSE {}

\* the map m holds the nested projection e
Holds(m, e) == e[1] \in DOMAIN m /\ e[2] \in DOMAIN m[e[1]]

====
